---- MODULE Spec2Model ----
(***************************************************************************)
(* mirror_gitlab_to_github.py as a state machine.                          *)
(*                                                                         *)
(* One process: the module-level configuration code, list_all_gitlab_      *)
(* projects() (one action per page request) and the for-loop of main()     *)
(* (one action per command or API call).  The source host, the destination *)
(* host and git are the environment: their answers are drawn with \E.      *)
(* The cache root on disk and the destination's repositories outlive a     *)
(* run, so the script may be started again (NewRun) on what the last run   *)
(* left behind.                                                            *)
(*                                                                         *)
(* Python strings are sequences of one-character strings, so that rstrip,  *)
(* replace and concatenation are computed, not assumed.                    *)
(***************************************************************************)
EXTENDS Integers, Sequences, FiniteSets, TLC

\* ---------------------------------------------------------------- bounds

\* At most this many projects of ProjectPool are visible on the source.
MaxProjects == 2
\* The script is started at most this many times on the same cache root.
MaxRuns == 2
\* At most this many projects become visible on the source during a listing.
MaxShifts == 1
\* The source may hold up to this many pages of further (archived) projects.
MaxFullPages == 2
\* The full paths that are named have at most this many characters.
MaxPathLen == 6

\* ------------------------------------------------------- python values

\* None, and a str value.
None == [t |-> "none"]

Str(s) == [t |-> "str", v |-> s]

\* A bool value.
Bool(b) == [t |-> "bool", v |-> b]

\* bool(x) for x a str, a bool or None: the empty string, False and None are falsy.
Truthy(x) == (x.t = "str" /\ x.v # <<>>) \/ (x.t = "bool" /\ x.v)

\* s.rstrip("/")
RECURSIVE rstrip(_)
rstrip(s) ==
    IF s # <<>> /\ s[Len(s)] = "/" THEN rstrip(SubSeq(s, 1, Len(s) - 1)) ELSE s

\* s.replace("/", "__")
RECURSIVE replace(_)
replace(s) ==
    IF s = <<>> THEN <<>>
    ELSE (IF Head(s) = "/" THEN <<"_", "_">> ELSE <<Head(s)>>) \o replace(Tail(s))

\* ------------------------------------------------------------ environment

EnvNames == {"GITLAB_URL", "GITLAB_TOKEN", "GITHUB_ORG", "GITHUB_TOKEN", "CLONE_BASE"}

Required == {"GITLAB_URL", "GITLAB_TOKEN", "GITHUB_ORG", "GITHUB_TOKEN"}

\* A variable that is not set.
Unset == [t |-> "unset"]

\* A complete environment; GITLAB_URL ends in a slash, CLONE_BASE is not set.
EnvA ==
    [k \in EnvNames |->
        CASE k = "GITLAB_URL" -> Str(<<"u", "/">>)
          [] k = "GITLAB_TOKEN" -> Str(<<"t">>)
          [] k = "GITHUB_ORG" -> Str(<<"a", "c", "m", "e">>)
          [] k = "GITHUB_TOKEN" -> Str(<<"k">>)
          [] OTHER -> Unset]

\* A complete environment that spells the organisation as the destination does
\* and sets CLONE_BASE.
EnvB ==
    [EnvA EXCEPT !["GITLAB_URL"] = Str(<<"u">>),
                 !["GITHUB_ORG"] = Str(<<"A", "c", "m", "e">>),
                 !["CLONE_BASE"] = Str(<<"c">>)]

\* The environments the script is started in: the complete ones, and EnvB with
\* one required variable unset or empty, or a GITLAB_URL of slashes only.
Environments ==
    {EnvA, EnvB}
        \cup {[EnvB EXCEPT ![k] = Unset] : k \in Required}
        \cup {[EnvB EXCEPT ![k] = Str(<<>>)] : k \in Required}
        \cup {[EnvB EXCEPT !["GITLAB_URL"] = Str(<<"/", "/">>)]}
        \cup {[EnvB EXCEPT !["GITLAB_TOKEN"] = Unset, !["CLONE_BASE"] = Unset]}

\* "./gitlab-mirror"
DefaultCloneBase ==
    <<".", "/", "g", "i", "t", "l", "a", "b", "-", "m", "i", "r", "r", "o", "r">>

\* os.environ.get(k, default)
EnvGet(e, k, default) == IF e[k].t = "unset" THEN default ELSE e[k]

\* Faulty variant of ReadConfig: GITLAB_URL is taken as it is, without rstrip.
ReadConfigNoStrip(e) ==
    [GITLAB_URL |-> EnvGet(e, "GITLAB_URL", Str(<<>>)),
     GITLAB_TOKEN |-> EnvGet(e, "GITLAB_TOKEN", None),
     GITHUB_ORG |-> EnvGet(e, "GITHUB_ORG", None),
     GITHUB_TOKEN |-> EnvGet(e, "GITHUB_TOKEN", None),
     CLONE_BASE |-> EnvGet(e, "CLONE_BASE", Str(DefaultCloneBase))]

\* Lines 7-11: the module-level configuration read from environment e.
ReadConfig(e) ==
    [GITLAB_URL |-> Str(rstrip(EnvGet(e, "GITLAB_URL", Str(<<>>)).v)),
     GITLAB_TOKEN |-> EnvGet(e, "GITLAB_TOKEN", None),
     GITHUB_ORG |-> EnvGet(e, "GITHUB_ORG", None),
     GITHUB_TOKEN |-> EnvGet(e, "GITHUB_TOKEN", None),
     CLONE_BASE |-> EnvGet(e, "CLONE_BASE", Str(DefaultCloneBase))]

\* Line 13: all([GITLAB_URL, GITLAB_TOKEN, GITHUB_ORG, GITHUB_TOKEN])
ConfigComplete(c) ==
    /\ Truthy(c.GITLAB_URL)
    /\ Truthy(c.GITLAB_TOKEN)
    /\ Truthy(c.GITHUB_ORG)
    /\ Truthy(c.GITHUB_TOKEN)

\* -------------------------------------------------------------- the source

\* Line 38
per_page == 100

DotGit == <<".", "g", "i", "t">>

\* A project descriptor as the listing serves it; a key the source leaves out
\* reads as None through p.get.
Project(id, full_path, leaf, archived, public, description) ==
    [id |-> id,
     path_with_namespace |-> full_path,
     path |-> leaf,
     http_url_to_repo |-> <<"u", "/">> \o full_path \o DotGit,
     archived |-> archived,
     public |-> public,
     description |-> description]

\* The projects of interest, in ascending id.  Two of them share a leaf name,
\* two of them differ only in "/" against "__".
ProjectPool ==
    << Project(1001, <<"g", "/", "s", "/", "x">>, <<"x">>, None, None, None),
       Project(1002, <<"g", "/", "s", "_", "_", "x">>, <<"s", "_", "_", "x">>,
               Bool(FALSE), Bool(TRUE), Str(<<"d">>)),
       Project(1003, <<"h", "/", "x">>, <<"x">>, Bool(FALSE), Bool(FALSE), Str(<<>>)),
       Project(1004, <<"h", "/", "y">>, <<"y">>, Bool(TRUE), None, None) >>

\* The decimal digits of n, as characters.
RECURSIVE Digits(_)
Digits(n) ==
    LET d == <<"0", "1", "2", "3", "4", "5", "6", "7", "8", "9">>[(n % 10) + 1]
    IN IF n < 10 THEN <<d>> ELSE Digits(n \div 10) \o <<d>>

\* The archived project f/<n>, of id 10 + n: it fills the pages before the pool's.
Filler(n) ==
    Project(10 + n, <<"f", "/">> \o Digits(n), Digits(n), Bool(TRUE), None, None)

\* The k-th project to become visible during a listing: archived, and of a
\* lower id than every project visible before.
NewlyVisible(k) ==
    Project(10 - k, <<"n", "/">> \o Digits(k), Digits(k), Bool(TRUE), None, None)

\* The subsequence of s at the positions in S, in order.
RECURSIVE Pick(_, _)
Pick(s, S) ==
    IF s = <<>> THEN <<>>
    ELSE (IF Len(s) \in S THEN Pick(SubSeq(s, 1, Len(s) - 1), S) \o <<s[Len(s)]>>
          ELSE Pick(SubSeq(s, 1, Len(s) - 1), S))

\* The subsequences of the pool of at most n projects.
PoolTables(n) ==
    {Pick(ProjectPool, S) :
        S \in {T \in SUBSET (1..Len(ProjectPool)) : Cardinality(T) <= n}}

\* A source of less than a page: at most MaxProjects projects of the pool.
SmallTables == PoolTables(MaxProjects)

\* A source of several pages: k * per_page - 1 archived projects of lower ids
\* and then at most one project of the pool, which is the last of a full page.
LargeTables ==
    {[i \in 1..(k * per_page - 1) |-> Filler(i)] \o t :
        k \in 1..MaxFullPages, t \in PoolTables(1)}

\* The source's answer to GET /projects?per_page=..&page=n&order_by=id&sort=asc
\* when it holds tbl.
ServePage(tbl, n) ==
    LET lo == (n - 1) * per_page + 1
        hi == IF n * per_page < Len(tbl) THEN n * per_page ELSE Len(tbl)
    IN SubSeq(tbl, lo, hi)

\* --------------------------------------------------------- the destination

\* The organisation's login as the destination spells it.
OrgLogin == <<"A", "c", "m", "e">>

\* Logins are matched without regard to case.
Lower(s) == [i \in 1..Len(s) |-> IF s[i] = "A" THEN "a" ELSE s[i]]

\* "https://github.com/{org}/{name}.git"
RepoUrl(org, name) == <<"https://github.com/">> \o org \o <<"/">> \o name \o DotGit

\* What POST /orgs/{org}/repos may answer when the organisation holds repos:
\* 201 with the new repository's clone_url, or 422 "name already exists" when
\* the name is taken; and, whatever the name, a 422 for another reason, a
\* server error, or 404 for an organisation it does not know.
PostResponses(org, name, repos) ==
    (IF Lower(org) # Lower(OrgLogin)
        THEN {[status |-> 404, name_exists |-> FALSE, clone_url |-> <<>>]}
     ELSE IF name \in repos
        THEN {[status |-> 422, name_exists |-> TRUE, clone_url |-> <<>>]}
     ELSE {[status |-> 201, name_exists |-> FALSE,
            clone_url |-> RepoUrl(OrgLogin, name)]})
    \cup {[status |-> 422, name_exists |-> FALSE, clone_url |-> <<>>],
          [status |-> 500, name_exists |-> FALSE, clone_url |-> <<>>]}

\* Faulty variant of RaisesForStatus: the status of the response is not looked at.
RaisesNever(status) == FALSE

\* Response.raise_for_status(): a 4xx or 5xx status raises HTTPError.
RaisesForStatus(status) == status >= 400

\* Faulty variant of create_github_repo: a name conflict is not reused, every
\* 422 raises.
create_github_repo_NoReuse(c, name, r) ==
    IF RaisesForStatus(r.status)
        THEN [raised |-> TRUE, url |-> <<>>]
    ELSE [raised |-> FALSE, url |-> r.clone_url]

\* Faulty variant of create_github_repo: every 422 is taken for the name
\* conflict, the text of the response is not looked at.
create_github_repo_Any422(c, name, r) ==
    IF r.status = 422
        THEN [raised |-> FALSE, url |-> RepoUrl(c.GITHUB_ORG.v, name)]
    ELSE IF RaisesForStatus(r.status)
        THEN [raised |-> TRUE, url |-> <<>>]
    ELSE [raised |-> FALSE, url |-> r.clone_url]

\* Lines 57-76: create_github_repo(name, ...) on response r of the POST; what it
\* returns, or that it raised.
create_github_repo(c, name, r) ==
    IF r.status = 422 /\ r.name_exists
        THEN [raised |-> FALSE, url |-> RepoUrl(c.GITHUB_ORG.v, name)]
    ELSE IF RaisesForStatus(r.status)
        THEN [raised |-> TRUE, url |-> <<>>]
    ELSE [raised |-> FALSE, url |-> r.clone_url]

\* Line 117: p.get("description") or f"Mirror of {full_path} from {GITLAB_URL}"
DescriptionFor(c, p) ==
    IF Truthy(p.description) THEN p.description.v
    ELSE <<"Mirror of ">> \o p.path_with_namespace \o <<" from ">> \o c.GITLAB_URL.v

\* Faulty variant of PrivateFor: the flag is passed on without the negation.
PrivateAsPublic(p) == Truthy(p.public)

\* Line 118: not p.get("public", False)
PrivateFor(p) == ~Truthy(p.public)

\* Line 97: the mirror directory's name under CLONE_BASE.
LocalDirName(full_path) == replace(full_path) \o DotGit

\* Faulty variant of IsArchived: the archived flag is not looked at.
IsArchivedNever(p) == FALSE

\* Line 90: p.get("archived")
IsArchived(p) == Truthy(p.archived)

\* Faulty variant of IsShortPage: <= for <.
IsShortPageOrFull(batch) == Len(batch) <= per_page

\* Line 52: the page is the last one.
IsShortPage(batch) == Len(batch) < per_page

\* Variant of extend that leaves out what the list already holds.
extendNew(list, batch) ==
    list \o SelectSeq(batch, LAMBDA d : \A i \in 1..Len(list) : list[i] # d)

\* Line 51: projects.extend(batch)
extend(list, batch) == list \o batch

\* Faulty variant of ForIter: the list is walked from its end.
ForIterReversed(i, n) == IF i = 0 THEN n ELSE i - 1

\* Line 84: `for p in projects` after position i of a list of n; 0 when the
\* list is exhausted.
ForIter(i, n) == IF i < n THEN i + 1 ELSE 0

\* Faulty variant of ExceptCatches: the call is not inside try/except.
ExceptMissing == FALSE

\* Lines 120-122: `except Exception` catches whatever create_github_repo raises.
ExceptCatches == TRUE

\* Faulty variant of SyncBranch: the directory is not looked for.
SyncBranchAlwaysClone(existing, dir) == "clone"

\* Lines 98, 106: the branch of step 1.
SyncBranch(existing, dir) == IF dir \notin existing THEN "clone" ELSE "fetch"

\* The exit status of a process that ends by sys.exit(1) (line 15) or by an
\* exception nothing catches (line 141), and of one whose main() returns.
ExitFailure == 1

ExitSuccess == 0

\* ------------------------------------------------------------------ state

VARIABLES
    env,          \* the process environment of every run
    table,        \* the projects the source shows, in ascending id
    shifts,       \* how many projects became visible during listings
    cache_root,   \* CLONE_BASE exists on disk
    dirs,         \* the mirror directories that exist under CLONE_BASE
    cloned,       \* the full paths whose clone command has returned 0
    gh_repos,     \* the names of the organisation's repositories
    run,          \* the number of the current run
    pc,           \* where the process is
    config,       \* the module-level globals
    page,         \* list_all_gitlab_projects: page
    projects,     \* list_all_gitlab_projects: projects, then main's projects
    requests,     \* the page numbers requested in this run, in order
    served,       \* the batches received in this run, in order
    idx,          \* main: the position of p in projects
    gh_url,       \* main: gh_url
    status,       \* per position of projects: pending, completed or skipped: <reason>
    log,          \* the commands run and API calls made by the loop, in order
    exit_status   \* the exit status of the run, -1 while it is running

vars ==
    << env, table, shifts, cache_root, dirs, cloned, gh_repos, run, pc, config,
       page, projects, requests, served, idx, gh_url, status, log, exit_status >>

\* What outlives a run.
world == << env, table, shifts, cache_root, dirs, cloned, gh_repos, run >>

\* The locals of list_all_gitlab_projects.
listing == << page, projects, requests, served >>

NoConfig == [k \in EnvNames |-> None]

\* A process that has not run a line yet.
Fresh ==
    /\ pc = "import"
    /\ config = NoConfig
    /\ page = 1
    /\ projects = <<>>
    /\ requests = <<>>
    /\ served = <<>>
    /\ idx = 0
    /\ gh_url = <<>>
    /\ status = <<>>
    /\ log = <<>>
    /\ exit_status = -1

\* The first start of the script, on an empty cache root and a destination
\* organisation without repositories, against a source that shows tbl.
Start(tbl) ==
    /\ env \in Environments
    /\ table = tbl
    /\ shifts = 0
    /\ cache_root = FALSE
    /\ dirs = {}
    /\ cloned = {}
    /\ gh_repos = {}
    /\ run = 1
    /\ Fresh

Init == \E tbl \in SmallTables : Start(tbl)

InitListing == \E tbl \in SmallTables \cup LargeTables : Start(tbl)

\* The process ends with exit status s.
Exit(s) ==
    /\ pc' = "exited"
    /\ exit_status' = s

\* A faulty variant: the `continue` is missing, the step after the failed one
\* is run.
SkipFallsThrough(reason) ==
    /\ status' = [status EXCEPT ![idx] = reason]
    /\ pc' = CASE pc = "sync" -> "create"
              [] pc = "create" -> "remove"
              [] pc = "add" -> "push"
              [] OTHER -> "sleep"

\* A faulty variant: a failed step is attempted again.
SkipRetry(reason) ==
    /\ UNCHANGED status
    /\ pc' = pc

\* `continue` after a failed step: the project is skipped for the given reason.
Skip(reason) ==
    /\ status' = [status EXCEPT ![idx] = reason]
    /\ pc' = "for"

\* One entry of log: the command or call made for the project at position idx,
\* whether it succeeded, its working directory, the URL it was given or has
\* returned, the arguments of a creation call and the response to it.
Entry(op, ok, dir, url, args, http) ==
    [i |-> idx, op |-> op, ok |-> ok, dir |-> dir, url |-> url, args |-> args,
     http |-> http]

NoArgs == [name |-> <<>>, description |-> <<>>, private |-> FALSE]

NoResponse == [status |-> 0, name_exists |-> FALSE, clone_url |-> <<>>]

\* The project of the current iteration and its mirror directory.
p == projects[idx]

local_dir == LocalDirName(p.path_with_namespace)

\* ------------------------------------------------- module-level code

\* Lines 7-17: read the configuration; exit 1 if a required value is missing,
\* else create the cache root and call main().
Import ==
    /\ pc = "import"
    /\ config' = ReadConfig(env)
    /\ IF ~ConfigComplete(config')
          THEN /\ Exit(ExitFailure)
               /\ UNCHANGED cache_root
          ELSE /\ cache_root' = TRUE
               /\ pc' = "list"
               /\ UNCHANGED exit_status
    /\ UNCHANGED << env, table, shifts, dirs, cloned, gh_repos, run, listing,
                    idx, gh_url, status, log >>

\* ------------------------------------------------ list_all_gitlab_projects

\* Lines 39-55 and 28-33: one turn of the while loop.  The request fails and
\* raise_for_status raises, which nothing catches; or it is answered with the
\* page, which ends the loop if it is empty or short.
ListPage ==
    /\ pc = "list"
    /\ \E http \in {200, 500} :
          /\ requests' = Append(requests, [page |-> page, status |-> http])
          /\ IF RaisesForStatus(http)
            THEN /\ Exit(ExitFailure)
                 /\ UNCHANGED << page, projects, served, status >>
            ELSE LET batch == ServePage(table, page)
                     all == IF batch = <<>> THEN projects ELSE extend(projects, batch)
                 IN /\ served' = Append(served, batch)
                    /\ projects' = all
                    /\ IF batch = <<>> \/ IsShortPage(batch)
                          THEN /\ pc' = "for"
                               /\ status' = [i \in 1..Len(all) |-> "pending"]
                               /\ UNCHANGED page
                          ELSE /\ page' = page + 1
                               /\ UNCHANGED << pc, status >>
                    /\ UNCHANGED exit_status
    /\ UNCHANGED << world, config, idx, gh_url, log >>

\* Between two page requests a project of a lower id than all others becomes
\* visible to the credential: every project moves one position up.
BecomeVisible ==
    /\ pc = "list"
    /\ page > 1
    /\ shifts < MaxShifts
    /\ shifts' = shifts + 1
    /\ table' = <<NewlyVisible(shifts + 1)>> \o table
    /\ UNCHANGED << env, cache_root, dirs, cloned, gh_repos, run, pc, config,
                    listing, idx, gh_url, status, log, exit_status >>

\* ------------------------------------------------------------------- main

\* Lines 84-94 and 141: the loop takes the next project, and skips it if it is
\* archived; after the last one main() returns and the process exits with 0.
ForNext ==
    /\ pc = "for"
    /\ LET nx == ForIter(idx, Len(projects))
       IN IF nx = 0
          THEN /\ Exit(ExitSuccess)
               /\ UNCHANGED << idx, status >>
          ELSE /\ idx' = nx
               /\ IF IsArchived(projects[nx])
                     THEN /\ status' = [status EXCEPT ![nx] = "skipped: archived"]
                          /\ UNCHANGED pc
                     ELSE /\ pc' = "sync"
                          /\ UNCHANGED status
               /\ UNCHANGED exit_status
    /\ UNCHANGED << world, config, listing, gh_url, log >>

\* Lines 98-105: no mirror directory, so clone.  A clone that returns 0 has
\* made the directory; one that fails has removed what it made, unless it was
\* killed before it could.
Clone ==
    /\ pc = "sync"
    /\ SyncBranch(dirs, local_dir) = "clone"
    /\ cache_root' = TRUE
    /\ \E ok \in BOOLEAN, left \in BOOLEAN :
          /\ ok => left
          /\ log' = Append(log, Entry("clone", ok, local_dir, p.http_url_to_repo, NoArgs, NoResponse))
          /\ dirs' = IF left THEN dirs \cup {local_dir} ELSE dirs
          /\ IF ok
                THEN /\ cloned' = cloned \cup {p.path_with_namespace}
                     /\ pc' = "create"
                     /\ UNCHANGED status
                ELSE /\ Skip("skipped: clone error")
                     /\ UNCHANGED cloned
    /\ UNCHANGED << env, table, shifts, gh_repos, run, config, listing, idx,
                    gh_url, exit_status >>

\* Lines 106-110: the mirror directory exists, so fetch in it.
Fetch ==
    /\ pc = "sync"
    /\ SyncBranch(dirs, local_dir) = "fetch"
    /\ \E ok \in BOOLEAN :
          /\ log' = Append(log, Entry("fetch", ok, local_dir, <<>>, NoArgs, NoResponse))
          /\ IF ok
                THEN /\ pc' = "create"
                     /\ UNCHANGED status
                ELSE Skip("skipped: fetch error")
    /\ UNCHANGED << world, config, listing, idx, gh_url, exit_status >>

\* Lines 113-124: create the destination repository, or reuse it.
Create ==
    /\ pc = "create"
    /\ LET name == p.path
           args == [name |-> name,
                    description |-> DescriptionFor(config, p),
                    private |-> PrivateFor(p)]
       IN \E r \in PostResponses(config.GITHUB_ORG.v, name, gh_repos) :
            LET res == create_github_repo(config, name, r)
            IN /\ gh_repos' = IF r.status = 201 THEN gh_repos \cup {name} ELSE gh_repos
               /\ log' = Append(log, Entry("create", ~res.raised, <<>>, res.url, args, r))
               /\ IF ~res.raised
                     THEN /\ gh_url' = res.url
                          /\ pc' = "remove"
                          /\ UNCHANGED << status, exit_status >>
                     ELSE IF ExceptCatches
                     THEN /\ Skip("skipped: create error")
                          /\ UNCHANGED << gh_url, exit_status >>
                     ELSE /\ Exit(ExitFailure)
                          /\ UNCHANGED << gh_url, status >>
    /\ UNCHANGED << env, table, shifts, cache_root, dirs, cloned, run, config,
                    listing, idx >>

\* Line 128: git remote remove github; its status is not looked at.
RemoteRemove ==
    /\ pc = "remove"
    /\ \E ok \in BOOLEAN :
          log' = Append(log, Entry("remote remove", ok, local_dir, <<>>, NoArgs, NoResponse))
    /\ pc' = "add"
    /\ UNCHANGED << world, config, listing, idx, gh_url, status, exit_status >>

\* Lines 129-131: git remote add github <gh_url>
RemoteAdd ==
    /\ pc = "add"
    /\ \E ok \in BOOLEAN :
          /\ log' = Append(log, Entry("remote add", ok, local_dir, gh_url, NoArgs, NoResponse))
          /\ IF ok
                THEN /\ pc' = "push"
                     /\ UNCHANGED status
                ELSE Skip("skipped: remote error")
    /\ UNCHANGED << world, config, listing, idx, gh_url, exit_status >>

\* Lines 133-135: git push --mirror github
Push ==
    /\ pc = "push"
    /\ \E ok \in BOOLEAN :
          /\ log' = Append(log, Entry("push", ok, local_dir, <<>>, NoArgs, NoResponse))
          /\ IF ok
                THEN /\ pc' = "sleep"
                     /\ UNCHANGED status
                ELSE Skip("skipped: push error")
    /\ UNCHANGED << world, config, listing, idx, gh_url, exit_status >>

\* Line 138: time.sleep(1), the end of an iteration that skipped nothing.
Sleep ==
    /\ pc = "sleep"
    /\ log' = Append(log, Entry("sleep", TRUE, <<>>, <<>>, NoArgs, NoResponse))
    /\ status' = [status EXCEPT ![idx] = "completed"]
    /\ pc' = "for"
    /\ UNCHANGED << world, config, listing, idx, gh_url, exit_status >>

\* The script is started again, in the same environment, on the cache root and
\* the destination as the last run left them.
NewRun ==
    /\ pc = "exited"
    /\ run < MaxRuns
    /\ run' = run + 1
    /\ pc' = "import"
    /\ config' = NoConfig
    /\ page' = 1
    /\ projects' = <<>>
    /\ requests' = <<>>
    /\ served' = <<>>
    /\ idx' = 0
    /\ gh_url' = <<>>
    /\ status' = <<>>
    /\ log' = <<>>
    /\ exit_status' = -1
    /\ UNCHANGED << env, table, shifts, cache_root, dirs, cloned, gh_repos >>

\* One run of the script.
Run ==
    \/ Import
    \/ ListPage
    \/ ForNext
    \/ Clone
    \/ Fetch
    \/ Create
    \/ RemoteRemove
    \/ RemoteAdd
    \/ Push
    \/ Sleep

\* Runs of the script, one after the other, against a source of less than a
\* page (where BecomeVisible is never enabled).
Next ==
    \/ Run
    \/ NewRun

Spec == Init /\ [][Next]_vars

\* One run of the script against a source of any size that may change while it
\* is listed.
NextListing ==
    \/ Run
    \/ BecomeVisible

SpecListing == InitListing /\ [][NextListing]_vars

\* ----------------------------------------------------------------- claims

\* The entries of log made for the project at position i.
Own(i) == SelectSeq(log, LAMBDA e : e.i = i)

\* A step of the project at position i failed, other than the removal of the
\* old remote, whose status main() does not look at.
OwnStepFailed(i) ==
    \E k \in 1..Len(log) : log[k].i = i /\ ~log[k].ok /\ log[k].op # "remote remove"

Skipped(i) == status[i] \notin {"pending", "completed"}

\* list_all_gitlab_projects has returned: the loop of main() has been entered.
ListReturned == pc \notin {"import", "list"} /\ Len(status) = Len(projects)

InLoopBody == pc \in {"sync", "create", "remove", "add", "push", "sleep"}

\* C1 -- Failure isolation.  When a run ends after the listing has returned,
\* every project that is not archived has been processed (its clone or fetch
\* was run), whatever happened to the projects before and after it; it is
\* completed if and only if none of its own steps failed and skipped if and
\* only if one of its own steps failed.
C1_FailureIsolation ==
    (pc = "exited" /\ ListReturned) =>
        \A i \in 1..Len(projects) :
            ~Truthy(projects[i].archived) =>
                /\ Own(i) # <<>>
                /\ Own(i)[1].op \in {"clone", "fetch"}
                /\ status[i] = "completed" <=> ~OwnStepFailed(i)
                /\ Skipped(i) <=> OwnStepFailed(i)

\* C1: the creation call of the first project raised and the project after it
\* is completed.
C1_Witness ==
    /\ pc = "exited"
    /\ Len(projects) = 2
    /\ status[1] = "skipped: create error"
    /\ status[2] = "completed"

\* C2 -- Archived filtering.  For a project whose descriptor says
\* archived = true no command is run and no API call is made, the loop is
\* never inside its iteration, and once reached it is skipped as archived.
C2_ArchivedFiltering ==
    \A i \in 1..Len(status) :
        projects[i].archived = Bool(TRUE) =>
            /\ Own(i) = <<>>
            /\ i = idx => ~InLoopBody
            /\ i <= idx => status[i] = "skipped: archived"
            /\ i > idx => status[i] = "pending"

\* C2: a run has ended in which an archived project was skipped and another
\* project was mirrored.
C2_Witness ==
    /\ pc = "exited"
    /\ \E i, j \in 1..Len(status) :
          /\ projects[i].archived = Bool(TRUE)
          /\ status[i] = "skipped: archived"
          /\ status[j] = "completed"

\* The clone and fetch entries of the project at position i.
SyncEntries(i) == SelectSeq(log, LAMBDA e : e.i = i /\ e.op \in {"clone", "fetch"})

C3_OneSync ==
    \A i \in 1..Len(status) :
        /\ Len(SyncEntries(i)) <= 1
        /\ (~Truthy(projects[i].archived) /\ (i < idx \/ (i = idx /\ pc # "sync")))
              => Len(SyncEntries(i)) = 1

C3_SyncStep ==
    pc = "sync" =>
        /\ pc' # "sync"
        /\ Len(log') = Len(log) + 1
        /\ SubSeq(log', 1, Len(log)) = log
        /\ LET e == log'[Len(log')]
               dir == replace(projects[idx].path_with_namespace) \o DotGit
           IN /\ e.i = idx
              /\ e.dir = dir
              /\ e.op = "clone" <=> dir \notin dirs
              /\ e.op = "fetch" <=> dir \in dirs

C4_IdempotentCreate ==
    \A j, k \in 1..Len(log) :
        (/\ j < k
         /\ log[j].op = "create" /\ log[k].op = "create"
         /\ log[j].args.name = log[k].args.name
         /\ log[j].http.status = 201
         /\ log[k].http.status = 422 /\ log[k].http.name_exists)
        => (log[j].ok /\ log[k].ok /\ log[j].url = log[k].url)

\* The concatenation of a sequence of lists.
RECURSIVE Concat(_)
Concat(ss) == IF ss = <<>> THEN <<>> ELSE Head(ss) \o Concat(Tail(ss))

\* The pages served so far are full pages, requested as 1, 2, ... in order.
FullPagesSoFar(n) ==
    /\ \A j \in 1..n : Len(served[j]) = per_page
    /\ \A j \in 1..Len(requests) : requests[j].page = j

\* C5 -- Pagination.  While the pages are full, page after page is requested;
\* when list_all_gitlab_projects has returned, the k pages it was served are
\* pages 1..k, each requested once and in order, page k is the first with
\* fewer items than the page size, and the list returned is the concatenation
\* of the k pages in the order received.
C5_Pagination ==
    /\ pc = "list" => (Len(requests) = Len(served) /\ FullPagesSoFar(Len(served)))
    /\ (ListReturned /\ pc # "exited") =>
          LET k == Len(served)
          IN /\ k >= 1
             /\ Len(requests) = k
             /\ FullPagesSoFar(k - 1)
             /\ Len(served[k]) < per_page
             /\ projects = Concat(served)

\* C5: the listing has returned after three requests, the third page empty
\* (the total is a multiple of the page size).
C5_Witness ==
    /\ pc = "for"
    /\ Len(requests) = 3
    /\ served[3] = <<>>
    /\ Len(projects) = 2 * per_page

\* The required configuration is present in the environment: the four
\* variables are set, none is empty, and GITLAB_URL is more than slashes.
Configured ==
    \A k \in Required :
        /\ env[k].t = "str"
        /\ \E n \in 1..Len(env[k].v) : k = "GITLAB_URL" => env[k].v[n] # "/"

\* A page request of this run was answered with an error status.
ListingFailed == \E j \in 1..Len(requests) : requests[j].status >= 400

\* C6 as stated -- the exit status is 1 if required configuration is missing
\* and 0 in every other run.
C6_ExitStatusAsStated ==
    pc = "exited" => exit_status = (IF ~Configured THEN 1 ELSE 0)

\* C6 -- Process exit code.  The exit status is 1 if required configuration is
\* missing or a page request of the listing failed, and 0 in every other run,
\* whatever the outcomes of the individual projects.
C6_ExitStatus ==
    /\ pc = "exited" => exit_status = (IF ~Configured \/ ListingFailed THEN 1 ELSE 0)
    /\ pc # "exited" => exit_status = -1

\* C6: a run has exited with 0 although a project was skipped for a failed push.
C6_Witness ==
    /\ pc = "exited"
    /\ exit_status = 0
    /\ \E i \in 1..Len(status) : status[i] = "skipped: push error"

\* C7 -- Configuration fail-fast.  With a required value missing the process
\* is at its first line or has exited with 1, and nothing was done: no cache
\* root, no request, no command.  With the four required values present it
\* gets past the check, CLONE_BASE set or not.
C7_ConfigFailFast ==
    /\ ~Configured =>
          /\ pc \in {"import", "exited"}
          /\ pc = "exited" => exit_status = 1
          /\ ~cache_root
          /\ requests = <<>> /\ served = <<>> /\ log = <<>>
          /\ dirs = {} /\ gh_repos = {}
    /\ (Configured /\ pc # "import") =>
          /\ cache_root
          /\ pc = "exited" => requests # <<>>
          /\ config.CLONE_BASE =
                (IF env["CLONE_BASE"].t = "unset" THEN Str(DefaultCloneBase)
                 ELSE env["CLONE_BASE"])

\* C7: the process has exited with 1 on a GITLAB_URL of slashes only.
C7_Witness ==
    /\ pc = "exited"
    /\ exit_status = 1
    /\ env["GITLAB_URL"].t = "str" /\ env["GITLAB_URL"].v # <<>>
    /\ ~Configured

\* C8 -- Listing failure is fatal and precedes all work.  Nothing is done for
\* any project before the listing has returned, after which no page is
\* requested; and if a page request failed the run has exited with the error
\* and nothing was done for any project, those of the pages already fetched
\* included.
C8_ListingFirst ==
    /\ (idx > 0 \/ log # <<>> \/ dirs # {} \/ gh_repos # {}) =>
          /\ Len(requests) = Len(served)
          /\ served # <<>>
          /\ Len(served[Len(served)]) < per_page
          /\ ~ListingFailed
    /\ ListingFailed =>
          /\ pc = "exited"
          /\ exit_status = 1
          /\ requests[Len(requests)].status >= 400
          /\ idx = 0 /\ log = <<>> /\ dirs = {} /\ gh_repos = {}
          /\ \A i \in 1..Len(status) : status[i] = "pending"

\* C8: the second page request failed after a first page that holds a project
\* that is not archived.
C8_Witness ==
    /\ pc = "exited"
    /\ Len(served) = 1
    /\ Len(requests) = 2
    /\ requests[2].status >= 400
    /\ \E i \in 1..Len(projects) : ~Truthy(projects[i].archived)

\* How often d occurs in list.
Count(d, list) == Cardinality({i \in 1..Len(list) : list[i] = d})

RECURSIVE CountServed(_, _)
CountServed(d, n) == IF n = 0 THEN 0 ELSE Count(d, served[n]) + CountServed(d, n - 1)

NoDuplicates(list) == Cardinality({list[i] : i \in 1..Len(list)}) = Len(list)

\* list_all_gitlab_projects has just returned its list to main().
JustListed == ListReturned /\ pc = "for" /\ idx = 0

\* C9 as stated -- the list returned holds no project descriptor twice.
C9_DeduplicatedAsStated == JustListed => NoDuplicates(projects)

\* C9 -- Deduplicated listing.  The list returned holds every descriptor as
\* often as the pages held it: no descriptor twice if no descriptor was served
\* twice, and a descriptor that two pages held is returned twice.
C9_AsServed ==
    JustListed =>
        /\ \A d \in {projects[i] : i \in 1..Len(projects)}
                   \cup UNION {{served[n][i] : i \in 1..Len(served[n])} :
                                 n \in 1..Len(served)} :
              Count(d, projects) = CountServed(d, Len(served))
        /\ shifts = 0 => NoDuplicates(projects)

\* C9: the project that was the last of page 1 has been served again as the
\* first of page 2, and is returned twice.
C9_Witness ==
    /\ JustListed
    /\ Len(served) = 2
    /\ served[2] # <<>>
    /\ served[1][per_page] = served[2][1]
    /\ projects[per_page] = projects[per_page + 1]
    /\ ~Truthy(projects[per_page].archived)

\* C10 -- Strictly sequential processing in listing order.  The projects are
\* taken in the order of the list: those before the current one are done,
\* those after it untouched; every entry of the log is for the current project
\* or an earlier one, and the entries of a project are not interleaved with
\* those of another.
C10_Sequential ==
    /\ \A i \in 1..Len(status) :
          /\ i < idx => status[i] # "pending"
          /\ i > idx => (status[i] = "pending" /\ Own(i) = <<>>)
          /\ (i = idx /\ InLoopBody) => status[i] = "pending"
    /\ \A j, k \in 1..Len(log) : j < k => log[j].i <= log[k].i
    /\ \A k \in 1..Len(log) : log[k].i \in 1..idx

\* C10: two projects have been processed one after the other, each with
\* several steps.
C10_Witness ==
    /\ pc = "exited"
    /\ Len(projects) = 2
    /\ Len(Own(1)) >= 5
    /\ Len(Own(2)) >= 5

\* How many entries of log are for the project at position i with an
\* operation of ops.
Attempts(i, ops) == Cardinality({k \in 1..Len(log) : log[k].i = i /\ log[k].op \in ops})

C12_Throttle ==
    \A j, k \in 1..Len(log) :
        (j < k /\ log[j].i # log[k].i) =>
            \E m \in j..k : log[m].op = "sleep"

\* C13 -- Mirror-directory invariant.  Across the runs made from an empty
\* cache root, a project whose mirror directory is found to exist, and for
\* which the fetch branch is therefore taken, is a project for which a clone
\* command has returned 0 before.
C13_FetchOnlyAfterClone ==
    \A k \in 1..Len(log) :
        log[k].op = "fetch" =>
            /\ log[k].dir = LocalDirName(projects[log[k].i].path_with_namespace)
            /\ projects[log[k].i].path_with_namespace \in cloned

\* Two clone URLs name the same repository of the destination, which matches
\* the owner's login without regard to case.
SameRepository(u, v) == u # <<>> /\ Lower(u) = Lower(v)

\* The response was a success or the 422 name conflict.
Answered(r) == r.status \in 200..299 \/ (r.status = 422 /\ r.name_exists)

\* C14 -- Destination name collision.  Two projects of one run with
\* different full paths and the same leaf name, whose creation calls the
\* destination answered with a success or the name conflict, both get a URL of
\* one and the same repository; neither is skipped for a creation error, and
\* the remote each push goes to is that repository.
C14_NameCollision ==
    \A j, k \in 1..Len(log) :
        (/\ j < k
         /\ log[j].op = "create" /\ log[k].op = "create"
         /\ projects[log[j].i].path_with_namespace # projects[log[k].i].path_with_namespace
         /\ projects[log[j].i].path = projects[log[k].i].path
         /\ Answered(log[j].http) /\ Answered(log[k].http))
        => /\ log[j].ok /\ log[k].ok
           /\ log[j].args.name = log[k].args.name
           /\ SameRepository(log[j].url, log[k].url)
           /\ status[log[j].i] # "skipped: create error"
           /\ status[log[k].i] # "skipped: create error"
           /\ \A m \in 1..Len(log) :
                 (log[m].op = "remote add" /\ log[m].i \in {log[j].i, log[k].i})
                     => SameRepository(log[m].url, log[j].url)

\* C14: g/s/x and h/x are both completed in one run, the repository x created
\* for the first and reused for the second on the name conflict.
C14_Witness ==
    /\ pc = "exited"
    /\ Len(projects) = 2
    /\ projects[1].path_with_namespace # projects[2].path_with_namespace
    /\ projects[1].path = projects[2].path
    /\ status[1] = "completed" /\ status[2] = "completed"
    /\ \E j, k \in 1..Len(log) :
          /\ log[j].i = 1 /\ log[j].op = "create" /\ log[j].http.status = 201
          /\ log[k].i = 2 /\ log[k].op = "create" /\ log[k].http.name_exists

\* C15 -- Destination-creation errors.  create_github_repo returns a URL
\* exactly when the response has a success status or is the 422 name conflict;
\* on every other response, a 422 without the conflict text included, it raises
\* and returns nothing.  main() catches what it raises for the current project
\* only: that project is skipped with nothing more done for it, and the run
\* goes on to the next project instead of ending with the error.
C15_CreateErrors ==
    /\ \A k \in 1..Len(log) :
          log[k].op = "create" =>
              LET r == log[k].http
                  success == r.status \in 200..299
                  conflict == r.status = 422 /\ r.name_exists
              IN /\ log[k].ok <=> (success \/ conflict)
                 /\ log[k].ok <=> log[k].url # <<>>
                 /\ success => log[k].url = r.clone_url
                 /\ ~log[k].ok =>
                       /\ status[log[k].i] = "skipped: create error"
                       /\ k < Len(log) => log[k + 1].i > log[k].i
                       /\ pc = "exited" =>
                             /\ exit_status = 0
                             /\ \A i \in 1..Len(status) : status[i] # "pending"
                       /\ pc # "exited" => idx >= log[k].i
                 /\ (log[k].ok /\ (k < Len(log) \/ pc # "remove")) =>
                       status[log[k].i] # "skipped: create error"

\* C15: a creation call answered with a 422 that is not the name conflict
\* raised, its project was skipped, and the project after it was completed.
C15_Witness ==
    /\ pc = "exited"
    /\ \E k \in 1..Len(log) :
          /\ log[k].op = "create"
          /\ log[k].http.status = 422
          /\ ~log[k].http.name_exists
          /\ ~log[k].ok
          /\ log[k].i = 1
          /\ status[1] = "skipped: create error"
    /\ Len(status) = 2
    /\ status[2] = "completed"

\* C16 -- Per-project step gating.  The creation call of a project comes
\* directly after its clone or fetch, which returned 0; the removal of the old
\* remote directly after its creation call, which returned a URL; the remote
\* add directly after that removal, whatever the removal returned, and with
\* the URL that creation call returned; the push directly after its remote add,
\* which returned 0.  After a failed removal the remote add is still run.
C16_StepGating ==
    /\ \A k \in 1..Len(log) :
          LET e == log[k]
              Prev(n) == log[k - n]
          IN /\ e.op = "create" =>
                   /\ k > 1
                   /\ Prev(1).i = e.i
                   /\ Prev(1).op \in {"clone", "fetch"}
                   /\ Prev(1).ok
             /\ e.op = "remote remove" =>
                   /\ k > 1
                   /\ Prev(1).i = e.i
                   /\ Prev(1).op = "create"
                   /\ Prev(1).ok
                   /\ Prev(1).url # <<>>
             /\ e.op = "remote add" =>
                   /\ k > 2
                   /\ Prev(1).i = e.i /\ Prev(1).op = "remote remove"
                   /\ Prev(2).i = e.i /\ Prev(2).op = "create"
                   /\ e.url = Prev(2).url
                   /\ e.url # <<>>
             /\ e.op = "push" =>
                   /\ k > 1
                   /\ Prev(1).i = e.i
                   /\ Prev(1).op = "remote add"
                   /\ Prev(1).ok
             /\ (e.op = "remote remove" /\ ~e.ok) =>
                   /\ status[e.i] # "skipped: remote error" \/ k < Len(log)
                   /\ IF k < Len(log)
                         THEN log[k + 1].i = e.i /\ log[k + 1].op = "remote add"
                         ELSE pc = "add" /\ idx = e.i /\ status[e.i] = "pending"

\* C16: the second project of a run was pushed after its remote add returned
\* 0, although the removal of the old remote had failed, with a URL that is
\* not the one the first project was given.
C16_Witness ==
    \E k \in 5..Len(log) :
        /\ log[k].op = "push" /\ log[k].i = 2
        /\ log[k - 1].op = "remote add" /\ log[k - 1].ok
        /\ log[k - 2].op = "remote remove" /\ ~log[k - 2].ok
        /\ log[k - 3].op = "create" /\ log[k - 3].url = log[k - 1].url
        /\ \E j \in 1..k :
              log[j].i = 1 /\ log[j].op = "create" /\ log[j].ok
                 /\ log[j].url # log[k - 1].url

\* C17 -- Creation arguments.  Every creation call is made with the leaf name
\* of its project as the name; with private false if the descriptor says
\* public = true and true otherwise, a missing flag included; and with the
\* descriptor's description if it has one that is not empty, otherwise
\* "Mirror of <full path> from <GITLAB_URL>", the URL without trailing slashes.
C17_CreateArguments ==
    \A k \in 1..Len(log) :
        log[k].op = "create" =>
            LET d == projects[log[k].i]
                a == log[k].args
            IN /\ a.name = d.path
               /\ a.private = (d.public # Bool(TRUE))
               /\ d.public = None => a.private
               /\ (d.description.t = "str" /\ d.description.v # <<>>)
                     => a.description = d.description.v
               /\ (d.description = None \/ d.description = Str(<<>>))
                     => a.description = <<"Mirror of ">> \o d.path_with_namespace
                                           \o <<" from ">> \o rstrip(env["GITLAB_URL"].v)

\* C17: creation calls were made for a public project with a description and
\* for a project with neither flag nor description, from a GITLAB_URL that ends
\* in a slash.
C17_Witness ==
    /\ log # <<>>
    /\ env["GITLAB_URL"].v # rstrip(env["GITLAB_URL"].v)
    /\ \E j, k \in 1..Len(log) :
          /\ log[j].op = "create"
          /\ projects[log[j].i].public = Bool(TRUE)
          /\ projects[log[j].i].description.t = "str"
          /\ ~log[j].args.private
          /\ log[j].args.description = projects[log[j].i].description.v
          /\ log[k].op = "create"
          /\ projects[log[k].i].public = None
          /\ projects[log[k].i].description = None
          /\ log[k].args.private
          /\ log[k].args.description[1] = "Mirror of "

\* C18 -- Cache frame.  While a project is processed no command is run on
\* the mirror directory of another project: a directory that a clone has made
\* for one project is not the target or working directory of a command run for
\* a project with another full path; and every directory a command is run on
\* is in the cache afterwards, none is deleted.
C18_CacheFrame ==
    /\ \A k \in 1..Len(log) : log[k].op \in {"fetch", "remote add", "push"} => log[k].dir \in dirs
    /\ \A j, k \in 1..Len(log) :
          (/\ j < k
           /\ log[j].op = "clone" /\ log[j].ok
           /\ log[k].dir # <<>>
           /\ projects[log[j].i].path_with_namespace # projects[log[k].i].path_with_namespace)
          => log[k].dir # log[j].dir

\* ------------------------------------------- the naming of mirror directories

\* The characters full paths are made of: a letter, the separator and the
\* underscore.
PathChars == {"a", "/", "_"}

\* A full path namespace/.../project: two or more segments, each beginning and
\* ending with a letter.
WellFormed(s) ==
    /\ s[1] = "a"
    /\ s[Len(s)] = "a"
    /\ \E n \in 1..Len(s) : s[n] = "/"
    /\ \A n \in 2..(Len(s) - 1) : s[n] = "/" => (s[n - 1] = "a" /\ s[n + 1] = "a")

FullPaths ==
    {s \in UNION {[1..n -> PathChars] : n \in 1..MaxPathLen} : WellFormed(s)}

\* p["path"]: the last segment of the full path.
RECURSIVE Leaf(_)
Leaf(s) ==
    IF \E n \in 1..Len(s) : s[n] = "/" THEN Leaf(Tail(s)) ELSE s

\* main() has been given a list of two projects with different full paths.
InitNaming ==
    /\ env = EnvB
    /\ \E a, b \in FullPaths :
          /\ a # b
          /\ table = << Project(1, a, Leaf(a), None, None, None),
                        Project(2, b, Leaf(b), None, None, None) >>
    /\ shifts = 0
    /\ cache_root = TRUE
    /\ dirs = {}
    /\ cloned = {}
    /\ gh_repos = {}
    /\ run = 1
    /\ pc = "for"
    /\ config = ReadConfig(env)
    /\ page = 1
    /\ projects = table
    /\ requests = << [page |-> 1, status |-> 200] >>
    /\ served = << table >>
    /\ idx = 0
    /\ gh_url = <<>>
    /\ status = [i \in 1..Len(table) |-> "pending"]
    /\ log = <<>>
    /\ exit_status = -1

\* Line 97 for the next project of the list, and the directory of that name
\* made in the cache.
MakeLocalDir ==
    /\ pc = "for"
    /\ idx < Len(projects)
    /\ idx' = idx + 1
    /\ dirs' = dirs \cup {LocalDirName(projects[idx + 1].path_with_namespace)}
    /\ UNCHANGED << env, table, shifts, cache_root, cloned, gh_repos, run, pc,
                    config, listing, gh_url, status, log, exit_status >>

NextNaming == MakeLocalDir

SpecNaming == InitNaming /\ [][NextNaming]_vars

\* C19 -- Directory naming is collision-free.  The name made of a full path
\* holds no "/", and two different full paths are given two different names,
\* paths with "__" in a segment included: after the directories of two
\* different projects have been made there are two directories.
C19_CollisionFree ==
    /\ \A d \in dirs : \A n \in 1..Len(d) : d[n] # "/"
    /\ \A i \in 1..idx :
          /\ LocalDirName(projects[i].path_with_namespace) \in dirs
          /\ \A j \in 1..idx :
                projects[i].path_with_namespace # projects[j].path_with_namespace
                    => LocalDirName(projects[i].path_with_namespace)
                          # LocalDirName(projects[j].path_with_namespace)
    /\ Cardinality(dirs) = idx

====
